---- MODULE Spec2Model ----
(***************************************************************************)
(* Model of the TDS data-processing pipeline (src/data_processor.py):      *)
(* TDSDataProcessor.clean_text, process_course_content,                    *)
(* process_discourse_posts, enhance_metadata, filter_by_date,              *)
(* save_processed_data and run_pipeline; of the vector-store builder       *)
(* (src/vector_store.py), of the endpoint POST /api/ (src/main.py) and of  *)
(* the course scraper (src/course_scaper.py).                              *)
(*                                                                         *)
(* Text is a sequence of one-character strings.  Scores are integers in    *)
(* ten-thousandths before rounding and in hundredths after round(., 2).    *)
(***************************************************************************)
EXTENDS Integers, Sequences, FiniteSets, TLC

VARIABLES
    pc,          \* position of run_pipeline
    interrupted, \* the process was interrupted at this position
    config,      \* the options structure passed to run_pipeline
    fs,          \* the input files: metadata file, markdown files, forum file
    out,         \* the output files: path -> content
    prevOut,     \* the output files as they were when the run started
    markdown_content,  \* run_pipeline local
    course_docs,     \* run_pipeline local
    discourse_docs,  \* run_pipeline local
    enhanced_docs,   \* run_pipeline local
    serializable,    \* save_processed_data local
    store_pc,    \* position of the vector-store builder's main block
    input_data,  \* the file the builder reads: its status and its JSON value
    texts,       \* load_processed_data's first result, the documents
    metadatas,   \* load_processed_data's second result
    vectordb,    \* what build_vector_store returned
    clean_pc,      \* position of a call of clean_text
    raw_text,      \* the text clean_text is called with
    cleaned_text,  \* what clean_text returned
    request,     \* the body of a POST /api/ request
    response,    \* the HTTP response to it
    visited,     \* the scraper's global set of normalized URLs
    saved,       \* the scraper's global metadata list: the pages saved
    stack,       \* the active calls of crawl_page, innermost first
    gotos        \* the URLs page.goto was called with, in order

\* the state of run_pipeline
pipelineVars == <<pc, interrupted, config, fs, out, prevOut, markdown_content,
                  course_docs, discourse_docs, enhanced_docs, serializable>>

\* the state of the vector-store builder (src/vector_store.py)
storeVars == <<store_pc, input_data, texts, metadatas, vectordb>>

\* the state of a call of clean_text on its own
cleanVars == <<clean_pc, raw_text, cleaned_text>>

\* the state of the question-answering endpoint (src/main.py)
apiVars == <<request, response>>

\* the state of the course scraper (src/course_scaper.py)
crawlVars == <<visited, saved, stack, gotos>>

\* the state of the programs that run after or beside run_pipeline
otherVars == <<storeVars, cleanVars, apiVars, crawlVars>>

vars == <<pipelineVars, otherVars>>

(***************************************************************************)
(* Bounds of the model.                                                    *)
(***************************************************************************)
\* most posts in the forum file
MaxPosts == 1
\* most records in the markdown metadata file
MaxDocs == 1

(***************************************************************************)
(* Characters and elementary text operations.                              *)
(***************************************************************************)
Min2(a, b) == IF a <= b THEN a ELSE b

\* Python's \s on the characters the model uses
IsSpace(c) == c \in {" ", "\n", "\t"}

UpperChars == <<"A","B","C","D","E","F","G","H","I","J","K","L","M",
                "N","O","P","Q","R","S","T","U","V","W","X","Y","Z">>
LowerChars == <<"a","b","c","d","e","f","g","h","i","j","k","l","m",
                "n","o","p","q","r","s","t","u","v","w","x","y","z">>
DigitChars == <<"0","1","2","3","4","5","6","7","8","9">>

IsDigit(c) == \E k \in 1..10 : DigitChars[k] = c
\* the digit's value, for a digit character
DigitVal(c) == (CHOOSE k \in 1..10 : DigitChars[k] = c) - 1

\* Python's \w
IsWord(c) == \/ \E k \in 1..26 : UpperChars[k] = c \/ LowerChars[k] = c
             \/ IsDigit(c)
             \/ c = "_"

\* str.lower() on one character
LowerChar(c) == IF \E k \in 1..26 : UpperChars[k] = c
                THEN LowerChars[CHOOSE k \in 1..26 : UpperChars[k] = c]
                ELSE c

\* str.lower()
Lower(s) == [i \in 1..Len(s) |-> LowerChar(s[i])]

\* s has the literal p at position i
HasAt(s, i, p) == /\ i >= 1
                  /\ i + Len(p) - 1 <= Len(s)
                  /\ \A k \in 1..Len(p) : s[i + k - 1] = p[k]

\* p in s
Contains(s, p) == \E i \in 1..(Len(s) - Len(p) + 1) : HasAt(s, i, p)

\* least index >= from at which the literal p occurs in s, 0 if none
Least(S) == IF S = {} THEN 0 ELSE CHOOSE j \in S : \A k \in S : j <= k
Greatest(S) == IF S = {} THEN 0 ELSE CHOOSE j \in S : \A k \in S : k <= j

Find(s, p, from) == Least({j \in from..(Len(s) - Len(p) + 1) : HasAt(s, j, p)})

\* first index >= i whose character is not whitespace (Len(s)+1 if none)
RECURSIVE SpaceRunEnd(_, _)
SpaceRunEnd(s, i) ==
    IF i > Len(s) \/ ~IsSpace(s[i]) THEN i ELSE SpaceRunEnd(s, i + 1)

\* first index >= i whose character is whitespace (Len(s)+1 if none)
RECURSIVE NonSpaceRunEnd(_, _)
NonSpaceRunEnd(s, i) ==
    IF i > Len(s) \/ IsSpace(s[i]) THEN i ELSE NonSpaceRunEnd(s, i + 1)

\* first index >= i whose character is not a word character
RECURSIVE WordRunEnd(_, _)
WordRunEnd(s, i) ==
    IF i > Len(s) \/ ~IsWord(s[i]) THEN i ELSE WordRunEnd(s, i + 1)

\* last index <= i whose character is not whitespace (0 if none)
RECURSIVE LastNonSpace(_, _)
LastNonSpace(s, i) ==
    IF i < 1 \/ ~IsSpace(s[i]) THEN i ELSE LastNonSpace(s, i - 1)

\* str.strip()
Strip(s) ==
    IF SpaceRunEnd(s, 1) > LastNonSpace(s, Len(s)) THEN <<>>
    ELSE SubSeq(s, SpaceRunEnd(s, 1), LastNonSpace(s, Len(s)))

(***************************************************************************)
(* The patterns compiled in __init__, and BeautifulSoup's tag removal.     *)
(* MatchLen(pat, s, i) is the length of the pattern's match starting at    *)
(* position i of s, 0 when it does not match there.  Every pattern here    *)
(* matches at least one character.                                         *)
(***************************************************************************)
QuoteOpen  == <<"[","q","u","o","t","e","=">>
QuoteClose == <<"[","/","q","u","o","t","e","]">>
\* the grave accent, which a TLA+ string cannot hold, written as a named character
Backtick   == "GRAVE"
Fence      == <<Backtick, Backtick, Backtick>>
Http       == <<"h","t","t","p",":","/","/">>
Https      == <<"h","t","t","p","s",":","/","/">>
Www        == <<"w","w","w",".">>
CodeToken  == <<"[","c","o","d","e","]">>

\* the length of a match from i to the position e of its last character, no
\* match when e = 0
Through(i, e) == IF e = 0 THEN 0 ELSE e - i + 1

\* BeautifulSoup(text, 'html.parser').get_text(): a tag runs from "<" to the
\* next ">"
TagLen(s, i) ==
    IF s[i] # "<" THEN 0 ELSE Through(i, Find(s, <<">">>, i + 1))

\* the quote block opened at i whose "]" is at a and whose closing marker
\* starts at b, with the whitespace after it
QuoteTail(s, i, b) ==
    IF b = 0 THEN 0 ELSE SpaceRunEnd(s, b + Len(QuoteClose)) - i
QuoteBody(s, i, a) ==
    IF a = 0 THEN 0 ELSE QuoteTail(s, i, Find(s, QuoteClose, a + 1))

\* ^\[quote=.*?\].*?\[\/quote\]\s*   (DOTALL | MULTILINE)
QuoteLen(s, i) ==
    IF ~((i = 1 \/ s[i - 1] = "\n") /\ HasAt(s, i, QuoteOpen)) THEN 0
    ELSE QuoteBody(s, i, Find(s, <<"]">>, i + Len(QuoteOpen)))

\* @\w+\b
MentionLen(s, i) ==
    IF s[i] = "@" /\ i < Len(s) /\ IsWord(s[i + 1])
    THEN WordRunEnd(s, i + 1) - i
    ELSE 0

\* three grave accents, .*?, three grave accents   (DOTALL)
CodeBlockLen(s, i) ==
    IF ~HasAt(s, i, Fence) THEN 0
    ELSE IF Find(s, Fence, i + 3) = 0 THEN 0
    ELSE Through(i, Find(s, Fence, i + 3) + 2)

\* the prefix p at i followed by \S+
PrefixedLen(s, i, p) ==
    IF HasAt(s, i, p) /\ NonSpaceRunEnd(s, i + Len(p)) > i + Len(p)
    THEN NonSpaceRunEnd(s, i + Len(p)) - i
    ELSE 0

\* https?://\S+|www\.\S+
UrlLen(s, i) ==
    IF PrefixedLen(s, i, Http) > 0 THEN PrefixedLen(s, i, Http)
    ELSE IF PrefixedLen(s, i, Https) > 0 THEN PrefixedLen(s, i, Https)
    ELSE PrefixedLen(s, i, Www)

\* \s+
WhitespaceLen(s, i) == IF IsSpace(s[i]) THEN SpaceRunEnd(s, i) - i ELSE 0

\* \n\s*\n : from a newline to the last newline of the whitespace run after it
EmptyLineLen(s, i) ==
    IF s[i] # "\n" THEN 0
    ELSE Through(i, Greatest({j \in (i + 1)..(SpaceRunEnd(s, i + 1) - 1) : s[j] = "\n"}))

MatchLen(pat, s, i) ==
    CASE pat = "tag"        -> TagLen(s, i)
      [] pat = "quote"      -> QuoteLen(s, i)
      [] pat = "mention"    -> MentionLen(s, i)
      [] pat = "code_block" -> CodeBlockLen(s, i)
      [] pat = "url"        -> UrlLen(s, i)
      [] pat = "whitespace" -> WhitespaceLen(s, i)
      [] pat = "empty_line" -> EmptyLineLen(s, i)

\* <<position, items>> of a run of steps continued by the run rest
Emit(items, rest) == <<rest[1], items \o rest[2]>>

\* the step of pattern.sub(repl, s) at position i, m being the length of the
\* match there: <<the position after it, the text it produces>>
SubStep(repl, s, i, m) == IF m > 0 THEN <<i + m, repl>> ELSE <<i + 1, <<s[i]>>>>

\* At most n >= 1 steps of pattern.sub(repl, s) from position i, as two
\* halves: <<the position reached, the text produced>>.
RECURSIVE SubSteps(_, _, _, _, _)
RECURSIVE SubThen(_, _, _, _, _)
SubThen(pat, repl, s, n, first) == Emit(first[2], SubSteps(pat, repl, s, first[1], n))

SubSteps(pat, repl, s, i, n) ==
    IF i > Len(s) THEN <<i, <<>>>>
    ELSE IF n = 1 THEN SubStep(repl, s, i, MatchLen(pat, s, i))
    ELSE SubThen(pat, repl, s, n - n \div 2, SubSteps(pat, repl, s, i, n \div 2))

\* pattern.sub(repl, s): the leftmost, non-overlapping matches replaced; every
\* step consumes a character, so Len(s) steps reach the end
re_sub(pat, repl, s) == SubSteps(pat, repl, s, 1, Len(s) + 1)[2]

(***************************************************************************)
(* clean_text                                                              *)
(***************************************************************************)
\* the discourse-specific cleaning
DiscourseClean(text) ==
    re_sub("code_block", CodeToken, re_sub("mention", <<>>, re_sub("quote", <<>>, text)))

\* the general cleaning
GeneralClean(text) ==
    Strip(re_sub("empty_line", <<"\n", "\n">>,
            re_sub("whitespace", <<" ">>,
              re_sub("url", <<>>, text))))

\* BeautifulSoup(text, 'html.parser').get_text()
StripMarkup(text) == re_sub("tag", <<>>, text)

clean_text(text, is_discourse) ==
    IF text = <<>> THEN <<>>
    ELSE IF is_discourse THEN GeneralClean(DiscourseClean(StripMarkup(text)))
    ELSE GeneralClean(StripMarkup(text))

(***************************************************************************)
(* self.markdown_splitter: RecursiveCharacterTextSplitter(chunk_size=1200, *)
(* chunk_overlap=200, length_function=len, separators=["\n\n","\n"," ",""])*)
(* with the library's defaults keep_separator=True, strip_whitespace=True. *)
(***************************************************************************)
chunk_size == 1200
chunk_overlap == 200
separators == << <<"\n", "\n">>, <<"\n">>, <<" ">>, <<>> >>

\* the step of the scan for the separator at position i, hit telling whether
\* a separator starts there: <<the position after it, the start found>>
CutStep(sep, i, hit) ==
    IF hit THEN <<(IF sep = <<>> THEN i + 1 ELSE i + Len(sep)), <<i>>>>
    ELSE <<i + 1, <<>>>>

\* At most n >= 1 steps of the scan from position i, as two halves: <<the
\* position reached, the start positions of the separators found>>.
RECURSIVE CutSteps(_, _, _, _)
RECURSIVE CutThen(_, _, _, _)
CutThen(s, sep, n, first) == Emit(first[2], CutSteps(s, sep, first[1], n))

CutSteps(s, sep, i, n) ==
    IF i > Len(s) THEN <<i, <<>>>>
    ELSE IF n = 1
    THEN CutStep(sep, i, IF sep = <<>> THEN i > 1 ELSE HasAt(s, i, sep))
    ELSE CutThen(s, sep, n - n \div 2, CutSteps(s, sep, i, n \div 2))

\* the piece starts, given the start positions of the separators
StartsOf(cuts) == IF cuts # <<>> /\ cuts[1] = 1 THEN cuts ELSE <<1>> \o cuts

\* _split_text_with_regex(text, separator, keep_separator=True): the start
\* positions of the pieces; each separator stays at the front of the piece
\* after it, and an empty first piece is dropped.  Piece k of s is
\* s[starts[k] .. starts[k+1]-1], the last one running to the end of s.
PieceStarts(s, sep) ==
    IF s = <<>> THEN <<>> ELSE StartsOf(CutSteps(s, sep, 1, Len(s))[2])

\* position after the last character of piece k
PieceEnd(s, starts, k) == IF k >= Len(starts) THEN Len(s) + 1 ELSE starts[k + 1]

\* a document unless its text is empty
DocOf(text) == IF text = <<>> THEN <<>> ELSE <<text>>

\* _join_docs of the pieces a..b: the joined text stripped, none when empty
JoinDocs(s, starts, a, b) ==
    DocOf(Strip(SubSeq(s, starts[a], PieceEnd(s, starts, b) - 1)))

\* the length of the pieces x..k-1, and the test of the while loop of
\* _merge_splits before piece k is added: they exceed chunk_overlap, or
\* overflow chunk_size together with piece k
Total(starts, x, k) == starts[k] - starts[x]
Pops(s, starts, x, k) ==
    \/ Total(starts, x, k) > chunk_overlap
    \/ /\ Total(starts, x, k) + (PieceEnd(s, starts, k) - starts[k]) > chunk_size
       /\ Total(starts, x, k) > 0

\* the while loop of _merge_splits: the first piece left of a..k-1 once the
\* pieces in front are popped
PopFront(s, starts, a, k) ==
    CHOOSE x \in a..k : ~Pops(s, starts, x, k) /\ (x = a \/ Pops(s, starts, x - 1, k))

\* piece k does not fit after the pieces a..k-1 of the current document
Overflows(s, starts, a, k) ==
    /\ a < k
    /\ (starts[k] - starts[a]) + (PieceEnd(s, starts, k) - starts[k]) > chunk_size

\* The step of the for loop of _merge_splits at piece k, the current
\* document being the pieces a..k-1: <<the first piece of the current document
\* after it, the documents it appends>>.
MergeStep(s, starts, k, a) ==
    IF Overflows(s, starts, a, k)
    THEN <<PopFront(s, starts, a, k), JoinDocs(s, starts, a, k - 1)>>
    ELSE <<a, <<>>>>

\* the for loop over the n >= 1 pieces from k on, as two halves; the current
\* document starts at a piece a <= k
RECURSIVE MergeSteps(_, _, _, _, _)
RECURSIVE MergeThen(_, _, _, _, _)
MergeThen(s, starts, k, n, first) ==
    Emit(first[2], MergeSteps(s, starts, k, first[1], n))

MergeSteps(s, starts, k, a, n) ==
    IF n = 1 \/ a > k THEN MergeStep(s, starts, k, a)
    ELSE MergeThen(s, starts, k + n \div 2, n - n \div 2,
                   MergeSteps(s, starts, k, a, n \div 2))

\* the documents once the loop is done: the current document is appended
MergeEnd(s, starts, hi, done) == done[2] \o JoinDocs(s, starts, done[1], hi)

\* _merge_splits of the pieces lo..hi
MergeSplits(s, starts, lo, hi) ==
    IF lo > hi THEN <<>>
    ELSE MergeEnd(s, starts, hi, MergeSteps(s, starts, lo, lo, hi - lo + 1))

\* the separator _split_text picks: the first of seps that is "" or occurs
\* in the text, the last one when none does
PickSeparator(text, seps) ==
    IF \E i \in 1..Len(seps) : seps[i] = <<>> \/ Contains(text, seps[i])
    THEN Least({i \in 1..Len(seps) : seps[i] = <<>> \/ Contains(text, seps[i])})
    ELSE Len(seps)

\* the separators left for the pieces that are still too long
NewSeparators(text, seps, i) ==
    IF seps[i] = <<>> \/ ~Contains(text, seps[i]) THEN <<>>
    ELSE SubSeq(seps, i + 1, Len(seps))

\* the first piece from position from on that is not shorter than chunk_size,
\* 0 if none
FirstBig(s, starts, from) ==
    Least({k \in from..Len(starts) : PieceEnd(s, starts, k) - starts[k] >= chunk_size})

\* RecursiveCharacterTextSplitter._split_text
RECURSIVE SplitText(_, _)
RECURSIVE SplitRuns(_, _, _, _)
RECURSIVE SplitAtBig(_, _, _, _, _)
\* the pieces from..k-1 are merged, the too long piece k is split further
\* (kept whole when no separator is left), and the loop goes on after k
SplitAtBig(s, starts, from, new_separators, k) ==
    MergeSplits(s, starts, from, k - 1)
    \o (IF new_separators = <<>>
        THEN <<SubSeq(s, starts[k], PieceEnd(s, starts, k) - 1)>>
        ELSE SplitText(SubSeq(s, starts[k], PieceEnd(s, starts, k) - 1), new_separators))
    \o SplitRuns(s, starts, k + 1, new_separators)

SplitRuns(s, starts, from, new_separators) ==
    IF FirstBig(s, starts, from) = 0 THEN MergeSplits(s, starts, from, Len(starts))
    ELSE SplitAtBig(s, starts, from, new_separators, FirstBig(s, starts, from))

SplitWith(text, seps, i) ==
    SplitRuns(text, PieceStarts(text, seps[i]), 1, NewSeparators(text, seps, i))

SplitText(text, seps) == SplitWith(text, seps, PickSeparator(text, seps))

\* splitter.split_text(text)
split_text(text) == SplitText(text, separators)

\* the documents of the chunks
DocumentsOf(chunks, metadata) ==
    [k \in 1..Len(chunks) |-> [page_content |-> chunks[k], metadata |-> metadata]]

\* splitter.create_documents([text], [metadata])
create_documents(text, metadata) == DocumentsOf(split_text(text), metadata)

(***************************************************************************)
(* Metadata mappings: functions from key names to values.                  *)
(***************************************************************************)
\* {**a, **b}
Merge(a, b) ==
    [k \in DOMAIN a \cup DOMAIN b |-> IF k \in DOMAIN b THEN b[k] ELSE a[k]]

\* d[key] = value on a copy of d
With(d, key, value) ==
    [k \in DOMAIN d \cup {key} |-> IF k = key THEN value ELSE d[k]]

\* d.get(key, default)
Get(d, key, default) == IF key \in DOMAIN d THEN d[key] ELSE default

EmptyDict == [k \in {} |-> 0]

\* hashlib.md5(text.encode()).hexdigest(): a digest determined by the text
\* alone, distinct texts taken to have distinct digests
md5(text) == <<"md5", text>>

(***************************************************************************)
(* self.header_splitter: MarkdownHeaderTextSplitter on "#".."####".        *)
(***************************************************************************)
headers_to_split_on == <<"Header 1", "Header 2", "Header 3", "Header 4">>

\* text.split(sep): the pieces between the occurrences of sep from position i
RECURSIVE SplitOn(_, _, _)
RECURSIVE SplitAt(_, _, _, _)
\* e is the position of the next occurrence, 0 if none
SplitAt(s, sep, i, e) ==
    IF e = 0 THEN <<SubSeq(s, i, Len(s))>>
    ELSE <<SubSeq(s, i, e - 1)>> \o SplitOn(s, sep, e + Len(sep))

SplitOn(s, sep, i) == SplitAt(s, sep, i, Find(s, sep, i))

\* "\n".join(lines), and the general sep.join
RECURSIVE Join(_, _)
Join(lines, sep) ==
    IF lines = <<>> THEN <<>>
    ELSE IF Len(lines) = 1 THEN lines[1]
    ELSE lines[1] \o sep \o Join(Tail(lines), sep)

\* number of "#" characters the line starts with
RECURSIVE HashRun(_, _)
HashRun(line, i) ==
    IF i > Len(line) \/ line[i] # "#" THEN i - 1 ELSE HashRun(line, i + 1)

\* n "#" characters open a heading: 1..4 of them, followed by a space or by
\* nothing
IsHeader(line, n) ==
    /\ n \in 1..Len(headers_to_split_on)
    /\ (Len(line) = n \/ line[n + 1] = " ")

\* the level of the heading a stripped line is, 0 when it is no heading
HeaderLevel(line) == IF IsHeader(line, HashRun(line, 1)) THEN HashRun(line, 1) ELSE 0

\* the header metadata after a heading of this level: headings of the same
\* or a deeper level are popped, the new one is set
PushHeader(md, level, data) ==
    With([k \in {h \in DOMAIN md :
                   \E j \in 1..(level - 1) : headers_to_split_on[j] = h} |-> md[k]],
         headers_to_split_on[level], data)

\* aggregate_lines_to_chunks: an entry whose metadata equals the last
\* chunk's is joined to it with two spaces and a newline
Aggregate(chunks, content, md) ==
    IF chunks # <<>> /\ chunks[Len(chunks)].metadata = md
    THEN [chunks EXCEPT ![Len(chunks)].page_content = @ \o <<" ", " ", "\n">> \o content]
    ELSE Append(chunks, [page_content |-> content, metadata |-> md])

\* the chunks after current_content is flushed to lines_with_metadata
Flush(chunks, current_content, md) ==
    IF current_content = <<>> THEN chunks
    ELSE Aggregate(chunks, Join(current_content, <<"\n">>), md)

\* the loop of MarkdownHeaderTextSplitter.split_text over the lines k.. ;
\* md is the header metadata in force
RECURSIVE HeaderScan(_, _, _, _, _)
RECURSIVE HeaderStep(_, _, _, _, _, _, _)
\* the step at the stripped line k, level being its heading level
HeaderStep(lines, k, chunks, current_content, md, line, level) ==
    IF level > 0
    THEN HeaderScan(lines, k + 1, Flush(chunks, current_content, md), <<>>,
                    PushHeader(md, level, Strip(SubSeq(line, level + 1, Len(line)))))
    ELSE IF line # <<>>
    THEN HeaderScan(lines, k + 1, chunks, Append(current_content, line), md)
    ELSE HeaderScan(lines, k + 1, Flush(chunks, current_content, md), <<>>, md)

HeaderScan(lines, k, chunks, current_content, md) ==
    IF k > Len(lines) THEN Flush(chunks, current_content, md)
    ELSE HeaderStep(lines, k, chunks, current_content, md,
                    Strip(lines[k]), HeaderLevel(Strip(lines[k])))

\* header_splitter.split_text(content)
header_split_text(content) ==
    HeaderScan(SplitOn(content, <<"\n">>, 1), 1, <<>>, <<>>, EmptyDict)

\* markdown_splitter.split_documents([split])
split_documents(split) == create_documents(split.page_content, split.metadata)

(***************************************************************************)
(* process_course_content                                                  *)
(***************************************************************************)
NoFault == -1

\* lines 115-126: the documents appended for the chunks of one header split
TriedChunks(chunks, metadata) ==
    [j \in 1..Len(chunks) |->
       [page_content |-> clean_text(chunks[j].page_content, FALSE),
        metadata |-> With(Merge(metadata, chunks[j].metadata), "doc_id",
                          md5(chunks[j].page_content))]]

\* the chunks the try block appends for one document when nothing raises
RECURSIVE CourseChunks(_, _, _)
CourseChunks(header_splits, k, metadata) ==
    IF k > Len(header_splits) THEN <<>>
    ELSE TriedChunks(split_documents(header_splits[k]), metadata)
         \o CourseChunks(header_splits, k + 1, metadata)

\* the chunks the except block appends
FallbackChunks(doc) ==
    create_documents(clean_text(doc.content, FALSE), doc.metadata)

\* what the iteration appends when the try block would append tried: all of
\* it when nothing raises, else the chunks appended before the exception
\* followed by the fallback chunks
Attempt(doc, fault, tried) ==
    IF fault = NoFault \/ (fault > 0 /\ fault >= Len(tried)) THEN tried
    ELSE SubSeq(tried, 1, fault) \o FallbackChunks(doc)

\* What one iteration of the for loop appends to processed_docs.  fault is
\* the number of chunks appended when the try block raises (0: the header
\* split itself raises; n > 0: producing chunk n+1 raises, when the document
\* has one), NoFault when nothing raises.
ProcessCourseDoc(doc, fault) ==
    Attempt(doc, fault, CourseChunks(header_split_text(doc.content), 1, doc.metadata))

RECURSIVE process_course_content(_, _)
process_course_content(documents, faults) ==
    IF documents = <<>> THEN <<>>
    ELSE ProcessCourseDoc(Head(documents), Head(faults))
         \o process_course_content(Tail(documents), Tail(faults))

(***************************************************************************)
(* load_markdown_content                                                   *)
(***************************************************************************)
Dashes == <<"-", "-", "-">>

\* the keys a front-matter block written by the scraper can hold, as text
\* and as metadata key
FrontMatterKeys ==
    << [text |-> <<"t","i","t","l","e">>, key |-> "title"],
       [text |-> <<"o","r","i","g","i","n","a","l","_","u","r","l">>, key |-> "original_url"],
       [text |-> <<"d","o","w","n","l","o","a","d","e","d","_","a","t">>, key |-> "downloaded_at"] >>

KeyOf(text) ==
    IF \E k \in 1..Len(FrontMatterKeys) : FrontMatterKeys[k].text = text
    THEN FrontMatterKeys[CHOOSE k \in 1..Len(FrontMatterKeys) : FrontMatterKeys[k].text = text].key
    ELSE "other"

\* str.strip('"')
RECURSIVE StripQuotes(_)
StripQuotes(s) ==
    IF s # <<>> /\ s[1] = "\"" THEN StripQuotes(Tail(s))
    ELSE IF s # <<>> /\ s[Len(s)] = "\"" THEN StripQuotes(SubSeq(s, 1, Len(s) - 1))
    ELSE s

\* front_matter after a line whose first ':' is at c, 0 when it has none
FrontMatterLine(front_matter, line, c) ==
    IF c = 0 THEN front_matter
    ELSE With(front_matter, KeyOf(Strip(SubSeq(line, 1, c - 1))),
              StripQuotes(Strip(SubSeq(line, c + 1, Len(line)))))

\* the loop over front_matter_str.split('\n'): every line holding ':' sets
\* front_matter[key.strip()] = value.strip().strip('"')
RECURSIVE FrontMatterOf(_, _, _)
FrontMatterOf(lines, k, front_matter) ==
    IF k > Len(lines) THEN front_matter
    ELSE FrontMatterOf(lines, k + 1,
                       FrontMatterLine(front_matter, lines[k], Find(lines[k], <<":">>, 1)))

\* content.split('---', 2) when content starts with '---', the second '---'
\* being at e: <<front matter, body>>, or <<>> when there are fewer than
\* three parts
PartsAt(content, e) ==
    IF e = 0 THEN <<>>
    ELSE <<SubSeq(content, 4, e - 1), SubSeq(content, e + 3, Len(content))>>

FrontMatterParts(content) ==
    IF HasAt(content, 1, Dashes) THEN PartsAt(content, Find(content, Dashes, 4)) ELSE <<>>

\* combined_metadata
CombinedMetadata(item, front_matter) ==
    With(With(Merge(item, front_matter), "source", "course_content"),
         "content_type", "course_material")

\* the document built from the front-matter parts of the content
DocOfParts(item, content, parts) ==
    IF parts = <<>>
    THEN [content |-> content, metadata |-> CombinedMetadata(item, EmptyDict)]
    ELSE [content |-> parts[2],
          metadata |-> CombinedMetadata(item,
                         FrontMatterOf(SplitOn(parts[1], <<"\n">>, 1), 1, EmptyDict))]

\* the document load_markdown_content builds for one metadata item whose
\* file exists with this content
LoadedDoc(item, content) == DocOfParts(item, content, FrontMatterParts(content))

\* the documents of the one metadata item
LoadedItem(item, markdown_dir) ==
    IF item.filename \in DOMAIN markdown_dir
    THEN <<LoadedDoc(item, markdown_dir[item.filename])>>
    ELSE <<>>

\* the documents of the metadata items whose markdown file exists
RECURSIVE load_markdown_content(_, _)
load_markdown_content(metadata, markdown_dir) ==
    IF metadata = <<>> THEN <<>>
    ELSE LoadedItem(Head(metadata), markdown_dir)
         \o load_markdown_content(Tail(metadata), markdown_dir)

(***************************************************************************)
(* process_discourse_posts                                                 *)
(***************************************************************************)
\* posts whose cleaned content is shorter are skipped
MinPostLen == 25

\* lines 152-167: the metadata of a post with this cleaned content
PostMetadata(post, content) ==
    [source |-> "discourse",
     url |-> Get(post, "url", <<>>),
     author |-> Get(post, "author", <<"A","n","o","n","y","m","o","u","s">>),
     created_at |-> Get(post, "created_at", <<>>),
     updated_at |-> Get(post, "updated_at", <<>>),
     topic_id |-> Get(post, "topic_id", <<>>),
     post_id |-> Get(post, "post_id", <<>>),
     topic_title |-> Get(post, "topic_title", <<>>),
     is_accepted_answer |-> Get(post, "is_accepted_answer", FALSE),
     reply_count |-> Get(post, "reply_count", 0),
     like_count |-> Get(post, "like_count", 0),
     tags |-> Get(post, "tags", <<>>),
     post_type |-> IF Get(post, "is_reply", FALSE) THEN "answer" ELSE "question",
     doc_id |-> md5(content)]

\* the chunks of a post when short posts are not skipped
ChunksOfCleanedUnskipped(post, content) ==
    create_documents(content, PostMetadata(post, content))

\* lines 148-175: the chunks of a post with this cleaned content
ChunksOfCleaned(post, content) ==
    IF content = <<>> \/ Len(content) < MinPostLen THEN <<>>
    ELSE create_documents(content, PostMetadata(post, content))

\* the chunks of one post
PostChunks(post) == ChunksOfCleaned(post, clean_text(Get(post, "content", <<>>), TRUE))

RECURSIVE process_discourse_posts(_)
process_discourse_posts(posts) ==
    IF posts = <<>> THEN <<>>
    ELSE PostChunks(Head(posts)) \o process_discourse_posts(Tail(posts))

(***************************************************************************)
(* enhance_metadata                                                        *)
(***************************************************************************)
IsAlpha(c) == \E k \in 1..26 : UpperChars[k] = c \/ LowerChars[k] = c

\* url[1..c-1] is a scheme, c being the position of the first ':'
IsScheme(url, c) ==
    /\ c > 1
    /\ IsAlpha(url[1])
    /\ \A k \in 1..(c - 1) : IsAlpha(url[k]) \/ IsDigit(url[k]) \/ url[k] \in {"+", "-", "."}

\* the netloc of the text from position from on: between "//" and the next
\* "/", "?" or "#"
NetlocEnd(url, from) ==
    IF \E j \in (from + 2)..Len(url) : url[j] \in {"/", "?", "#"}
    THEN Least({j \in (from + 2)..Len(url) : url[j] \in {"/", "?", "#"}}) - 1
    ELSE Len(url)

NetlocFrom(url, from) ==
    IF HasAt(url, from, <<"/", "/">>) THEN SubSeq(url, from + 2, NetlocEnd(url, from))
    ELSE <<>>

\* urlparse(url).netloc
Netloc(url) ==
    IF IsScheme(url, Find(url, <<":">>, 1))
    THEN NetlocFrom(url, Find(url, <<":">>, 1) + 1)
    ELSE NetlocFrom(url, 1)

\* round(score, 2) of a score in ten-thousandths, in hundredths: to the
\* nearest hundredth, a tie to the even one
Round2(x) ==
    LET q == x \div 100
        r == x % 100
    IN  IF r > 50 \/ (r = 50 /\ q % 2 = 1) THEN q + 1 ELSE q

\* the contribution of the likes with the cap of 0.2 left out
LikeBonusUncapped(like_count) == like_count * 200

\* min(0.2, like_count / 50), in ten-thousandths
LikeBonus(like_count) == Min2(2000, like_count * 200)

\* min(0.1, reply_count / 20), in ten-thousandths
ReplyBonus(reply_count) == Min2(1000, reply_count * 500)

\* the score of a forum chunk before rounding, in ten-thousandths
DiscourseScore(metadata) ==
    5000
    + (IF Get(metadata, "is_accepted_answer", FALSE) THEN 3000 ELSE 0)
    + LikeBonus(Get(metadata, "like_count", 0))
    + ReplyBonus(Get(metadata, "reply_count", 0))

\* lines 182-184
WithDomain(metadata) ==
    IF "url" \in DOMAIN metadata
    THEN With(metadata, "domain", Netloc(metadata["url"]))
    ELSE metadata

\* lines 200-203
ContentType(page_content, post_type) ==
    IF Contains(Lower(page_content), CodeToken)
    THEN "code_" \o post_type
    ELSE "text_" \o post_type

\* lines 187-203
WithQuality(page_content, metadata) ==
    IF metadata["source"] = "course_content"
    THEN With(With(metadata, "quality_score", 100), "content_type", "course_material")
    ELSE With(With(metadata, "quality_score", Round2(DiscourseScore(metadata))),
              "content_type", ContentType(page_content, metadata["post_type"]))

\* one iteration of the loop of enhance_metadata
EnhanceDoc(doc) ==
    [page_content |-> doc.page_content,
     metadata |-> WithQuality(doc.page_content, WithDomain(doc.metadata))]

enhance_metadata(documents) ==
    [k \in 1..Len(documents) |-> EnhanceDoc(documents[k])]

(***************************************************************************)
(* filter_by_date.  A datetime is <<year, month, day, hour, minute,        *)
(* second, microsecond>>; NoDate stands for a ValueError.                  *)
(***************************************************************************)
NoDate == <<>>

Digits(s, i, n) == \A k \in i..(i + n - 1) : k <= Len(s) /\ IsDigit(s[k])

\* the number written by the n digits of s from position i
RECURSIVE Number(_, _, _)
Number(s, i, n) ==
    IF n = 0 THEN 0 ELSE Number(s, i, n - 1) * 10 + DigitVal(s[i + n - 1])

RECURSIVE Pow10(_)
Pow10(n) == IF n = 0 THEN 1 ELSE 10 * Pow10(n - 1)

DaysInMonth(y, m) ==
    IF m = 2 THEN (IF (y % 4 = 0 /\ y % 100 # 0) \/ y % 400 = 0 THEN 29 ELSE 28)
    ELSE IF m \in {4, 6, 9, 11} THEN 30 ELSE 31

\* s[i..] starts with a well-formed, valid YYYY-MM-DD
DateAt(s, i) ==
    /\ Digits(s, i, 4) /\ HasAt(s, i + 4, <<"-">>)
    /\ Digits(s, i + 5, 2) /\ HasAt(s, i + 7, <<"-">>)
    /\ Digits(s, i + 8, 2)
    /\ Number(s, i, 4) >= 1
    /\ Number(s, i + 5, 2) \in 1..12
    /\ Number(s, i + 8, 2) \in 1..DaysInMonth(Number(s, i, 4), Number(s, i + 5, 2))

\* s[i..] starts with a well-formed, valid HH:MM:SS
TimeAt(s, i) ==
    /\ Digits(s, i, 2) /\ HasAt(s, i + 2, <<":">>)
    /\ Digits(s, i + 3, 2) /\ HasAt(s, i + 5, <<":">>)
    /\ Digits(s, i + 6, 2)
    /\ Number(s, i, 2) <= 23
    /\ Number(s, i + 3, 2) <= 59
    /\ Number(s, i + 6, 2) <= 59

DateFields(s) == <<Number(s, 1, 4), Number(s, 6, 2), Number(s, 9, 2)>>
TimeFields(s) == <<Number(s, 12, 2), Number(s, 15, 2), Number(s, 18, 2)>>

\* datetime.strptime(s, "%Y-%m-%dT%H:%M:%S.%fZ"), on two-digit fields
StrptimeFraction(s) ==
    LET n == Len(s) - 21    \* digits of the fraction
    IN  IF /\ Len(s) >= 22
           /\ DateAt(s, 1) /\ s[11] = "T" /\ TimeAt(s, 12)
           /\ s[20] = "." /\ n \in 1..6 /\ Digits(s, 21, n) /\ s[Len(s)] = "Z"
        THEN DateFields(s) \o TimeFields(s) \o <<Number(s, 21, n) * Pow10(6 - n)>>
        ELSE NoDate

\* datetime.strptime(s, "%Y-%m-%dT%H:%M:%SZ"), on two-digit fields
StrptimePlain(s) ==
    IF Len(s) = 20 /\ DateAt(s, 1) /\ s[11] = "T" /\ TimeAt(s, 12) /\ s[20] = "Z"
    THEN DateFields(s) \o TimeFields(s) \o <<0>>
    ELSE NoDate

\* datetime.fromisoformat(s): a date, midnight understood, or a date, "T" or
\* a space, and a time
FromIsoFormat(s) ==
    IF Len(s) = 10 /\ DateAt(s, 1) THEN DateFields(s) \o <<0, 0, 0, 0>>
    ELSE IF Len(s) = 19 /\ DateAt(s, 1) /\ s[11] \in {"T", " "} /\ TimeAt(s, 12)
    THEN DateFields(s) \o TimeFields(s) \o <<0>>
    ELSE NoDate

\* a <= b on datetimes
RECURSIVE DateLeqFrom(_, _, _)
DateLeqFrom(a, b, k) ==
    IF k > Len(a) THEN TRUE
    ELSE IF a[k] # b[k] THEN a[k] < b[k]
    ELSE DateLeqFrom(a, b, k + 1)

DateLeq(a, b) == DateLeqFrom(a, b, 1)

\* the post_date the two nested try blocks reach, NoDate when the document
\* is skipped
PostDate(created_at) ==
    IF StrptimeFraction(created_at) # NoDate THEN StrptimeFraction(created_at)
    ELSE StrptimePlain(created_at)

\* the test of the loop body: the document is appended to filtered
KeptByDate(doc, from, to) ==
    /\ Get(doc.metadata, "created_at", <<>>) # <<>>
    /\ PostDate(Get(doc.metadata, "created_at", <<>>)) # NoDate
    /\ DateLeq(from, PostDate(Get(doc.metadata, "created_at", <<>>)))
    /\ DateLeq(PostDate(Get(doc.metadata, "created_at", <<>>)), to)

\* fromisoformat raises on one of the bounds
FilterRaises(date_from, date_to) ==
    /\ date_from # <<>> /\ date_to # <<>>
    /\ (FromIsoFormat(date_from) = NoDate \/ FromIsoFormat(date_to) = NoDate)

filter_by_date(documents, date_from, date_to) ==
    IF date_from = <<>> \/ date_to = <<>> THEN documents
    ELSE SelectSeq(documents,
                   LAMBDA doc : KeptByDate(doc, FromIsoFormat(date_from),
                                           FromIsoFormat(date_to)))

(***************************************************************************)
(* save_processed_data                                                     *)
(***************************************************************************)
\* the record written for a chunk
RecordOf(doc) == [page_content |-> doc.page_content, metadata |-> doc.metadata]

\* the records of the documents
RecordsOf(kept) == [k \in 1..Len(kept) |-> RecordOf(kept[k])]

\* the list save_processed_data builds; min_quality in hundredths
Serializable(documents, min_quality) ==
    RecordsOf(SelectSeq(documents,
                        LAMBDA doc : Get(doc.metadata, "quality_score", 0) >= min_quality))

(***************************************************************************)
(* The inputs of a run: the files the scraper and the forum export leave,  *)
(* and the options structure.                                              *)
(***************************************************************************)
\* markdown_files/Intro.md: front matter, two sections
IntroMd ==
    <<"-","-","-","\n","t","i","t","l","e",":"," ","\"","I","n","t","r","o",
      "\"","\n","o","r","i","g","i","n","a","l","_","u","r","l",":"," ","\"",
      "h","t","t","p","s",":","/","/","t","d","s",".","s","-","a","n","a","n",
      "d",".","n","e","t","/","#","/","i","n","t","r","o","\"","\n","-","-",
      "-","\n","\n","#"," ","I","n","t","r","o","\n","\n","S","h","o","r","t",
      " "," ","t","e","x","t",".","\n","\n","#","#"," ","S","e","t","u","p",
      "\n","S","e","e"," ","h","t","t","p",":","/","/","x",".","i","o"," ",
      "n","o","w","\n">>

\* markdown_files/Plain.md: no front matter, no heading
PlainMd ==
    <<"P","l","a","i","n"," ","t","e","x","t"," ","o","n","l","y",".">>

MarkdownDir == [f \in {"Intro.md", "Plain.md"} |->
                  IF f = "Intro.md" THEN IntroMd ELSE PlainMd]

\* the records metadata.json can hold; Gone.md is not in the directory
MetadataItems ==
    { [title |-> <<"I","n","t","r","o">>, filename |-> "Intro.md"],
      [title |-> <<"P","l","a","i","n">>, filename |-> "Plain.md"],
      [title |-> <<"G","o","n","e">>, filename |-> "Gone.md"] }

UsePandasHtml ==
    <<"<","p",">","U","s","e"," ","p","a","n","d","a","s",".","<","/","p",
      ">">>

LoadCsvHtml ==
    <<"<","p",">","U","s","e"," ","p","a","n","d","a","s"," "," ","t","o"," ",
      "l","o","a","d"," ","t","h","e"," ","C","S","V"," ","f","i","l","e",".",
      "<","/","p",">">>

SnippetText ==
    <<"@","b","o","b"," ","s","e","e"," ","w","w","w",".","x",".","i","o"," ",
      "a","n","d"," ","t","h","e"," ",Backtick,Backtick,Backtick,"a","=","1",
      Backtick,Backtick,Backtick," ","s","n","i","p","p","e","t"," ","b","e",
      "l","o","w">>

InstallText ==
    <<"H","o","w"," ","d","o"," ","I"," ","i","n","s","t","a","l","l"," ","t",
      "h","e"," ","p","a","c","k","a","g","e","?">>

UrlOne ==
    <<"h","t","t","p","s",":","/","/","d",".","o","r","g","/","t","/","1">>

UrlTwo ==
    <<"h","t","t","p","s",":","/","/","d",".","o","r","g","/","t","/","2">>

AtBoundDay ==
    <<"2","0","2","5","-","0","4","-","1","4","T","1","0",":","0","0",":","0",
      "0","Z">>

InRangeFraction ==
    <<"2","0","2","5","-","0","2","-","0","1","T","0","8",":","3","0",":","0",
      "0",".","1","2","3","Z">>

AfterRange ==
    <<"2","0","2","5","-","0","5","-","0","1","T","0","0",":","0","0",":","0",
      "0","Z">>

DateFrom ==
    <<"2","0","2","5","-","0","1","-","0","1">>

DateTo ==
    <<"2","0","2","5","-","0","4","-","1","4">>

BeforeRange ==
    <<"2","0","2","4","-","1","2","-","3","1","T","2","3",":","5","9",":","5",
      "9","Z">>

AtFromMidnight ==
    <<"2","0","2","5","-","0","1","-","0","1","T","0","0",":","0","0",":","0",
      "0","Z">>

OnFromDay ==
    <<"2","0","2","5","-","0","1","-","0","1","T","0","9",":","0","0",":","0",
      "0","Z">>

AtToMidnight ==
    <<"2","0","2","5","-","0","4","-","1","4","T","0","0",":","0","0",":","0",
      "0","Z">>

NoZone ==
    <<"2","0","2","5","-","0","2","-","0","1","T","0","8",":","3","0",":","0",
      "0">>

Yesterday ==
    <<"y","e","s","t","e","r","d","a","y">>

Sentence ==
    <<"R","e","a","d"," ","t","h","e"," ","f","i","l","e"," ","w","i","t","h",
      " ","p","a","n","d","a","s","."," ">>

\* s repeated n times
RECURSIVE Repeat(_, _)
Repeat(s, n) == IF n = 0 THEN <<>> ELSE s \o Repeat(s, n - 1)

\* sentences in the long post: its cleaned text is longer than chunk_size
Repeats == 50

LongHtml == <<"<", "p", ">">> \o Repeat(Sentence, Repeats) \o <<"<", "/", "p", ">">>

\* the post of the specification's scenario
ScenarioPost ==
    [content |-> UsePandasHtml, is_accepted_answer |-> TRUE, like_count |-> 100,
     reply_count |-> 5, is_reply |-> TRUE]

LoadCsvPost ==
    [content |-> LoadCsvHtml, url |-> UrlOne, created_at |-> AtBoundDay,
     is_accepted_answer |-> TRUE, like_count |-> 100, reply_count |-> 5,
     is_reply |-> TRUE, tags |-> << <<"p","y">> >>]

SnippetPost ==
    [content |-> SnippetText, created_at |-> InRangeFraction,
     like_count |-> -30, reply_count |-> 0]

InstallPost ==
    [content |-> InstallText, url |-> UrlTwo, created_at |-> AfterRange,
     like_count |-> 3, reply_count |-> 1, is_reply |-> FALSE]

LongPost ==
    [content |-> LongHtml, url |-> UrlOne, created_at |-> InRangeFraction,
     like_count |-> 3, reply_count |-> 1, is_reply |-> TRUE]

\* the records discourse_posts.json can hold
Posts == {ScenarioPost, LoadCsvPost, SnippetPost, InstallPost}

\* the sequences over S of length exactly n
RECURSIVE SeqsOfLen(_, _)
SeqsOfLen(S, n) ==
    IF n = 0 THEN {<<>>}
    ELSE {Append(q, x) : q \in SeqsOfLen(S, n - 1), x \in S}

\* the sequences over S of length at most n
SeqsUpTo(S, n) == UNION {SeqsOfLen(S, k) : k \in 0..n}

\* the course stage: not configured, or its metadata file unreadable, or read
NoCourse == [configured |-> FALSE, status |-> "ok", metadata |-> <<>>]
CourseRead == {[configured |-> TRUE, status |-> "ok", metadata |-> m] :
                 m \in SeqsUpTo(MetadataItems, MaxDocs)}
CourseSides ==
    {NoCourse}
    \cup {[configured |-> TRUE, status |-> st, metadata |-> <<>>] :
            st \in {"missing", "invalid"}}
    \cup CourseRead

\* the forum stage: not configured, or its file unreadable, or read, with or
\* without the date bounds
NoForum == [configured |-> FALSE, status |-> "ok", posts |-> <<>>, dated |-> FALSE]
ForumRead(posts, dated) ==
    [configured |-> TRUE, status |-> "ok", posts |-> posts, dated |-> dated]
ForumSides ==
    {NoForum}
    \cup {[configured |-> TRUE, status |-> st, posts |-> <<>>, dated |-> FALSE] :
            st \in {"missing", "invalid"}}
    \cup {ForumRead(p, d) : p \in SeqsUpTo(Posts, MaxPosts), d \in BOOLEAN}

DefaultOutputFile == "processed_data/tds_processed.json"
CombinedFile == "processed_data/tds_combined.json"
OutPaths == {DefaultOutputFile, CombinedFile}

NoFile == [exists |-> FALSE, data |-> <<>>]
FileOf(data) == [exists |-> TRUE, data |-> data]
\* what an earlier run left
StaleData ==
    << [page_content |-> <<"o","l","d">>,
        metadata |-> [source |-> "course_content", quality_score |-> 100]] >>

\* the output files before the run: an earlier run wrote the default file
OutBefore ==
    [p \in OutPaths |-> IF p = DefaultOutputFile THEN FileOf(StaleData) ELSE NoFile]

\* min_quality values a configuration sets, in hundredths
MinQualities == {30}

\* an optional key of the configuration: absent (with a value never read),
\* or set to a value
Unset(unread) == [set |-> FALSE, value |-> unread]
Choices(values, unread) ==
    {Unset(unread)} \cup {[set |-> TRUE, value |-> v] : v \in values}

ConfigOf(c, f, q, o) ==
    (IF c.configured
     THEN ("markdown_metadata" :> "metadata.json") @@ ("markdown_dir" :> "markdown_files")
     ELSE EmptyDict)
    @@ (IF f.configured THEN "discourse_input" :> "discourse_posts.json" ELSE EmptyDict)
    @@ (IF f.dated THEN ("date_from" :> DateFrom) @@ ("date_to" :> DateTo) ELSE EmptyDict)
    @@ (IF q.set THEN "min_quality" :> q.value ELSE EmptyDict)
    @@ (IF o.set THEN "output_file" :> o.value ELSE EmptyDict)

FilesOf(c, f) ==
    [metadata_status |-> c.status, metadata |-> c.metadata, markdown_dir |-> MarkdownDir,
     forum_status |-> f.status, posts |-> f.posts]

(***************************************************************************)
(* The programs beside run_pipeline, at rest.                               *)
(***************************************************************************)
\* build_vector_store returned None, or has not run
NoStore == [built |-> FALSE, texts |-> <<>>, metadatas |-> <<>>]

\* the vector-store builder has not been started
StoreIdle ==
    /\ store_pc = "idle"
    /\ input_data = [status |-> "missing", data |-> <<>>]
    /\ texts = <<>>
    /\ metadatas = <<>>
    /\ vectordb = NoStore

\* clean_text has not been called on its own
CleanIdle ==
    /\ clean_pc = "idle"
    /\ raw_text = <<>>
    /\ cleaned_text = <<>>

\* no response, and the body of no request
NoResponse ==
    [status |-> 0, detail |-> "", raised_by |-> "", query |-> <<>>,
     answer |-> <<>>, links |-> <<>>]
NoRequest == [has_question |-> FALSE, question |-> <<>>, image |-> <<>>]

\* the endpoint has received no request
ApiIdle ==
    /\ request = NoRequest
    /\ response = NoResponse

\* the scraper has not been started
CrawlIdle ==
    /\ visited = {}
    /\ saved = <<>>
    /\ stack = <<>>
    /\ gotos = <<>>

OthersIdle == StoreIdle /\ CleanIdle /\ ApiIdle /\ CrawlIdle

(***************************************************************************)
(* run_pipeline                                                            *)
(***************************************************************************)
\* run_pipeline(config) is called with these input files in place
Start(c, f, q, o) ==
    /\ config = ConfigOf(c, f, q, o)
    /\ fs = FilesOf(c, f)
    /\ out = OutBefore
    /\ prevOut = OutBefore
    /\ pc = "start"
    /\ interrupted = FALSE
    /\ markdown_content = <<>>
    /\ course_docs = <<>>
    /\ discourse_docs = <<>>
    /\ enhanced_docs = <<>>
    /\ serializable = <<>>
    /\ OthersIdle

Init ==
    \E c \in CourseSides, f \in ForumSides,
       q \in Choices(MinQualities, 0), o \in Choices({CombinedFile}, "") :
         Start(c, f, q, o)

CourseConfigured == {"markdown_metadata", "markdown_dir"} \subseteq DOMAIN config
ForumConfigured == "discourse_input" \in DOMAIN config
DatesConfigured == {"date_from", "date_to"} \subseteq DOMAIN config

\* open + json.load of an input file raises, and nothing catches it
Unreadable(status) == status # "ok"

\* the sequences of fault points, one per document
FaultPoints == {NoFault, 0, 1}
FaultSeqs(n) == [1..n -> FaultPoints]

\* lines 270-275: the course stage is skipped, or load_markdown_content runs
LoadMarkdown ==
    /\ ~interrupted
    /\ pc = "start"
    /\ IF ~CourseConfigured
       THEN pc' = "course_done" /\ UNCHANGED markdown_content
       ELSE IF Unreadable(fs.metadata_status)
       THEN pc' = "aborted" /\ UNCHANGED markdown_content
       ELSE /\ markdown_content' = load_markdown_content(fs.metadata, fs.markdown_dir)
            /\ pc' = "loaded"
    /\ UNCHANGED <<interrupted, config, fs, out, prevOut, course_docs,
                   discourse_docs, enhanced_docs, serializable>>
    /\ UNCHANGED otherVars

\* line 276
ProcessCourse ==
    /\ ~interrupted
    /\ pc = "loaded"
    /\ \E faults \in FaultSeqs(Len(markdown_content)) :
         course_docs' = process_course_content(markdown_content, faults)
    /\ pc' = "course_done"
    /\ UNCHANGED <<interrupted, config, fs, out, prevOut, markdown_content,
                   discourse_docs, enhanced_docs, serializable>>
    /\ UNCHANGED otherVars

\* lines 280-283: the forum stage is skipped, or process_discourse_posts runs
ProcessDiscourse ==
    /\ ~interrupted
    /\ pc = "course_done"
    /\ IF ~ForumConfigured
       THEN pc' = "discourse_done" /\ UNCHANGED discourse_docs
       ELSE IF Unreadable(fs.forum_status)
       THEN pc' = "aborted" /\ UNCHANGED discourse_docs
       ELSE /\ discourse_docs' = process_discourse_posts(fs.posts)
            /\ pc' = "discourse_loaded"
    /\ UNCHANGED <<interrupted, config, fs, out, prevOut, markdown_content,
                   course_docs, enhanced_docs, serializable>>
    /\ UNCHANGED otherVars

\* lines 286-291
FilterByDate ==
    /\ ~interrupted
    /\ pc = "discourse_loaded"
    /\ IF ~DatesConfigured
       THEN pc' = "discourse_done" /\ UNCHANGED discourse_docs
       ELSE IF FilterRaises(config["date_from"], config["date_to"])
       THEN pc' = "aborted" /\ UNCHANGED discourse_docs
       ELSE /\ discourse_docs' = filter_by_date(discourse_docs, config["date_from"],
                                                config["date_to"])
            /\ pc' = "discourse_done"
    /\ UNCHANGED <<interrupted, config, fs, out, prevOut, markdown_content,
                   course_docs, enhanced_docs, serializable>>
    /\ UNCHANGED otherVars

\* lines 295-297: enhance_metadata changes the documents in place, so the two
\* lists hold the enhanced documents too
Enhance ==
    /\ ~interrupted
    /\ pc = "discourse_done"
    /\ course_docs' = enhance_metadata(course_docs)
    /\ discourse_docs' = enhance_metadata(discourse_docs)
    /\ enhanced_docs' = enhance_metadata(course_docs \o discourse_docs)
    /\ pc' = "enhanced"
    /\ UNCHANGED <<interrupted, config, fs, out, prevOut, markdown_content,
                   serializable>>
    /\ UNCHANGED otherVars

\* config.get('output_file', ...) and config.get('min_quality', 0.0)
OutputFile == Get(config, "output_file", DefaultOutputFile)
MinQuality == Get(config, "min_quality", 0)

\* the save starting before enhance_metadata has run
SaveMayStartEarly == pc \in {"discourse_done", "enhanced"}

\* run_pipeline calls save_processed_data once enhance_metadata has returned
SaveMayStart == pc = "enhanced"

\* save_processed_data up to open(output_file, 'w'), which truncates the file
SaveOpen ==
    /\ ~interrupted
    /\ SaveMayStart
    /\ serializable' = Serializable(enhanced_docs, MinQuality)
    /\ out' = [out EXCEPT ![OutputFile] = FileOf(<<>>)]
    /\ pc' = "writing"
    /\ UNCHANGED <<interrupted, config, fs, prevOut, markdown_content, course_docs,
                   discourse_docs, enhanced_docs>>
    /\ UNCHANGED otherVars

\* json.dump and the close of the file
SaveDump ==
    /\ ~interrupted
    /\ pc = "writing"
    /\ out' = [out EXCEPT ![OutputFile] = FileOf(serializable)]
    /\ pc' = "done"
    /\ UNCHANGED <<interrupted, config, fs, prevOut, markdown_content, course_docs,
                   discourse_docs, enhanced_docs, serializable>>
    /\ UNCHANGED otherVars

\* the process is interrupted where it stands
Interrupt ==
    /\ ~interrupted
    /\ pc \notin {"done", "aborted"}
    /\ interrupted' = TRUE
    /\ UNCHANGED <<pc, config, fs, out, prevOut, markdown_content, course_docs,
                   discourse_docs, enhanced_docs, serializable>>
    /\ UNCHANGED otherVars

Next ==
    \/ LoadMarkdown
    \/ ProcessCourse
    \/ ProcessDiscourse
    \/ FilterByDate
    \/ Enhance
    \/ SaveOpen
    \/ SaveDump
    \/ Interrupt

Spec == Init /\ [][Next]_vars

(***************************************************************************)
(* Runs on forum records alone: the course stage is not configured, so     *)
(* line 276 is never reached.                                              *)
(***************************************************************************)
NextForum ==
    \/ LoadMarkdown
    \/ ProcessDiscourse
    \/ FilterByDate
    \/ Enhance
    \/ SaveOpen
    \/ SaveDump
    \/ Interrupt

\* largest like_count and reply_count of the scoring runs, in absolute value
MaxLikes == 12
MaxReplies == 3

\* the counts a record carries: negative ones too, nothing validates them;
\* 100 and 5 are the counts of the specification's scenario
Likes == (-MaxLikes..MaxLikes) \cup {100}
Replies == (-MaxReplies..MaxReplies) \cup {5}

ScoredPost(content, accepted, likes, replies, reply) ==
    [content |-> content, is_accepted_answer |-> accepted, like_count |-> likes,
     reply_count |-> replies, is_reply |-> reply]

\* one forum record, its flags and counts drawn
InitScore ==
    \E content \in {UsePandasHtml, LoadCsvHtml}, accepted \in BOOLEAN,
       likes \in Likes, replies \in Replies, reply \in BOOLEAN :
         Start(NoCourse,
               ForumRead(<<ScoredPost(content, accepted, likes, replies, reply)>>, FALSE),
               Unset(0), Unset(""))

SpecScore == InitScore /\ [][NextForum]_vars

\* most records of the dated runs
MaxDated == 2

\* the created_at values of the dated runs
CreatedAts ==
    {BeforeRange, AtFromMidnight, OnFromDay, InRangeFraction, AtToMidnight,
     AtBoundDay, AfterRange, NoZone, Yesterday, <<>>}

\* records with a created_at, and one without
DatedPosts ==
    {[content |-> InstallText, created_at |-> d] : d \in CreatedAts}
    \cup {[content |-> InstallText]}

\* forum records filtered by date_from = 2025-01-01, date_to = 2025-04-14
InitDate ==
    \E posts \in SeqsUpTo(DatedPosts, MaxDated) :
         Start(NoCourse, ForumRead(posts, TRUE), Unset(0), Unset(""))

SpecDate == InitDate /\ [][NextForum]_vars

\* the forum files of the chunking runs hold the long post
LongForums == {<<LongPost>>, <<LongPost, LoadCsvPost>>, <<LoadCsvPost, LongPost>>}

\* course documents and a forum file with a post longer than chunk_size
InitChunk ==
    \E c \in {NoCourse} \cup CourseRead, posts \in LongForums, d \in BOOLEAN :
         Start(c, ForumRead(posts, d), Unset(0), Unset(""))

SpecChunk == InitChunk /\ [][Next]_vars

(***************************************************************************)
(* The claims.                                                             *)
(***************************************************************************)
\* the chunks the two stages have produced
Produced == course_docs \o discourse_docs

\* enhance_metadata has returned
Enhanced == pc \in {"enhanced", "writing", "done"}

HasDocId(doc) == "doc_id" \in DOMAIN doc.metadata

\* C1: every chunk the stages produce (header+size split, fallback split,
\* every chunk of a forum post) carries a doc_id equal to the hash of its own
\* final page_content, and two chunks have the same doc_id exactly when their
\* page_content is identical.
C1_DocIdIsContentHash ==
    /\ \A k \in 1..Len(Produced) :
         /\ HasDocId(Produced[k])
         /\ Produced[k].metadata["doc_id"] = md5(Produced[k].page_content)
    /\ \A j, k \in 1..Len(Produced) :
         (HasDocId(Produced[j]) /\ HasDocId(Produced[k])) =>
           ((Produced[j].metadata["doc_id"] = Produced[k].metadata["doc_id"])
              <=> (Produced[j].page_content = Produced[k].page_content))

\* C1, the case of a forum post split into several chunks: two chunks of the
\* forum stage with different page_content carry the same doc_id.
C1_SplitPostSharesDocId ==
    \E j, k \in 1..Len(discourse_docs) :
         /\ discourse_docs[j].page_content # discourse_docs[k].page_content
         /\ discourse_docs[j].metadata["doc_id"] = discourse_docs[k].metadata["doc_id"]

\* the score the claim states, in hundredths
ClaimedLikes(metadata) == Min2(20, 2 * metadata["like_count"])
ClaimedReplies(metadata) == Min2(10, 5 * metadata["reply_count"])
ClaimedScore(metadata) ==
    50 + (IF metadata["is_accepted_answer"] THEN 30 ELSE 0)
       + ClaimedLikes(metadata) + ClaimedReplies(metadata)

IsForumChunk(doc) == doc.metadata["source"] = "discourse"

\* C2: every forum chunk enhance_metadata has scored carries quality_score =
\* round(0.5 + (0.3 if accepted) + min(0.2, likes/50) + min(0.1, replies/20), 2);
\* the likes contribute at most 0.2, the replies at most 0.1, and no forum
\* chunk scores more than 1.1.
C2_ScoreFormula ==
    \A k \in 1..Len(enhanced_docs) :
       IsForumChunk(enhanced_docs[k]) =>
         /\ enhanced_docs[k].metadata["quality_score"]
               = ClaimedScore(enhanced_docs[k].metadata)
         /\ enhanced_docs[k].metadata["quality_score"]
               - (50 + (IF enhanced_docs[k].metadata["is_accepted_answer"] THEN 30 ELSE 0))
               - ClaimedReplies(enhanced_docs[k].metadata) <= 20
         /\ enhanced_docs[k].metadata["quality_score"] <= 110

\* C2, its case: an accepted answer whose likes and replies both exceed their
\* caps has been scored, and its score is 1.1.
C2_CappedScoreReached ==
    \E k \in 1..Len(enhanced_docs) :
       /\ IsForumChunk(enhanced_docs[k])
       /\ enhanced_docs[k].metadata["is_accepted_answer"]
       /\ enhanced_docs[k].metadata["like_count"] > 10
       /\ enhanced_docs[k].metadata["reply_count"] > 2
       /\ enhanced_docs[k].metadata["quality_score"] = 110

\* C3: every forum chunk with is_accepted_answer = true has a quality_score of
\* at least 0.8, whatever integer like_count and reply_count its record
\* carries.
C3_AcceptedAtLeastPoint8 ==
    \A k \in 1..Len(enhanced_docs) :
       (IsForumChunk(enhanced_docs[k]) /\ enhanced_docs[k].metadata["is_accepted_answer"])
         => enhanced_docs[k].metadata["quality_score"] >= 80

\* the calendar day of a datetime
DayOf(date) == SubSeq(date, 1, 3)

\* the chunk's created_at parses and its day lies from the date_from day to
\* the date_to day, both included
OnClaimedDays(doc, date_from, date_to) ==
    /\ Get(doc.metadata, "created_at", <<>>) # <<>>
    /\ PostDate(doc.metadata["created_at"]) # NoDate
    /\ DateLeq(DayOf(FromIsoFormat(date_from)), DayOf(PostDate(doc.metadata["created_at"])))
    /\ DateLeq(DayOf(PostDate(doc.metadata["created_at"])), DayOf(FromIsoFormat(date_to)))

\* C4: with both bounds given, filter_by_date raises no error and returns, in
\* input order, exactly the chunks whose created_at parses and lies in the
\* inclusive range: any time on the date_from day or on the date_to day is
\* retained, a missing or unparseable created_at is dropped.
C4_InclusiveDateRange ==
    /\ pc # "aborted"
    /\ (pc = "discourse_done" /\ DatesConfigured) =>
         discourse_docs =
           SelectSeq(process_discourse_posts(fs.posts),
                     LAMBDA doc : OnClaimedDays(doc, config["date_from"], config["date_to"]))

\* a configured stage's input file is missing or is not valid JSON
UnreadableInput ==
    \/ CourseConfigured /\ Unreadable(fs.metadata_status)
    \/ ForumConfigured /\ Unreadable(fs.forum_status)

\* C5: when the input file of a configured stage is missing or invalid, the
\* run does not abort: the stage yields zero documents and the run goes on to
\* save_processed_data.
C5_UnreadableInputDoesNotAbort == UnreadableInput => pc # "aborted"

\* what the documents k.. contribute when the failed ones contribute their
\* fallback chunks only
RECURSIVE ClaimedCourseChunks(_, _, _)
ClaimedCourseChunks(documents, failed, k) ==
    IF k > Len(documents) THEN <<>>
    ELSE (IF failed[k] THEN FallbackChunks(documents[k])
          ELSE ProcessCourseDoc(documents[k], NoFault))
         \o ClaimedCourseChunks(documents, failed, k + 1)

\* C6: process_course_content processes every document, and a document whose
\* splitting raised contributes exactly the size-split chunks of its
\* normalized whole text: no chunk of the failed attempt remains.
C6_FailedDocumentOnlyFallback ==
    pc = "course_done" =>
      \E failed \in [1..Len(markdown_content) -> BOOLEAN] :
         course_docs = ClaimedCourseChunks(markdown_content, failed, 1)

\* C7: after save_processed_data the output file holds exactly the records of
\* the chunks whose quality_score is at or above min_quality, in input order,
\* whatever it held before; with the default threshold every chunk is written.
C7_SavedExactlyQualifying ==
    pc = "done" =>
      /\ out[OutputFile] =
           FileOf(RecordsOf(SelectSeq(enhanced_docs,
                    LAMBDA doc : doc.metadata["quality_score"] >= MinQuality)))
      /\ "min_quality" \notin DOMAIN config =>
           out[OutputFile] = FileOf(RecordsOf(enhanced_docs))

UsePandasText == <<"U","s","e"," ","p","a","n","d","a","s",".">>
LoadCsvText ==
    <<"U","s","e"," ","p","a","n","d","a","s"," ","t","o"," ","l","o","a","d",
      " ","t","h","e"," ","C","S","V"," ","f","i","l","e",".">>

\* the forum file holds one accepted post with 100 likes, 5 replies and this
\* content
ScenarioWith(content) ==
    /\ Len(fs.posts) = 1
    /\ fs.posts[1].content = content
    /\ fs.posts[1].is_accepted_answer
    /\ fs.posts[1].like_count = 100
    /\ fs.posts[1].reply_count = 5

\* enhanced_docs is one chunk with this text, scored 1.1, typed as text
OneScenarioChunk(text) ==
    /\ Len(enhanced_docs) = 1
    /\ enhanced_docs[1].page_content = text
    /\ enhanced_docs[1].metadata["quality_score"] = 110
    /\ enhanced_docs[1].metadata["content_type"]
          = (IF fs.posts[1].is_reply THEN "text_answer" ELSE "text_question")

\* C8: the post {content: "<p>Use pandas.</p>", accepted, 100 likes, 5
\* replies} yields one chunk "Use pandas." with quality_score 1.1 and
\* content_type text_answer when is_reply, text_question otherwise.
C8_ScenarioYieldsChunk ==
    (Enhanced /\ ScenarioWith(UsePandasHtml)) => OneScenarioChunk(UsePandasText)

\* C8 as amended: the scenario's post yields no chunk, its cleaned content
\* being shorter than 25 characters; with the content "<p>Use pandas  to
\* load the CSV file.</p>" it yields one chunk "Use pandas to load the CSV
\* file." with quality_score 1.1 and content_type text_answer when is_reply,
\* text_question otherwise.
C8_ShortSkippedLongerScored ==
    /\ (Enhanced /\ ScenarioWith(UsePandasHtml)) => enhanced_docs = <<>>
    /\ (Enhanced /\ ScenarioWith(LoadCsvHtml)) => OneScenarioChunk(LoadCsvText)

\* C8, its case: the forum stage and enhance_metadata have run on the
\* scenario's post.
C8_ScenarioProcessed ==
    pc = "enhanced" /\ ScenarioWith(UsePandasHtml) /\ ~fs.posts[1].is_reply

ForumDomain == <<"d",".","o","r","g">>

\* C9: after enhance_metadata a chunk has a domain field if and only if its
\* source record had a URL, the domain being the URL's network location; a
\* forum post without url and every course chunk have no domain field.
C9_DomainIffUrl ==
    Enhanced =>
      \A k \in 1..Len(enhanced_docs) :
         /\ ("domain" \in DOMAIN enhanced_docs[k].metadata)
              <=> (Get(enhanced_docs[k].metadata, "url", <<>>) # <<>>)
         /\ ("domain" \in DOMAIN enhanced_docs[k].metadata)
              => enhanced_docs[k].metadata["domain"] = ForumDomain

\* every chunk of the run has been enhanced
Assembled ==
    /\ enhanced_docs = course_docs \o discourse_docs
    /\ \A k \in 1..Len(enhanced_docs) :
         "quality_score" \in DOMAIN enhanced_docs[k].metadata

\* C10: as long as the final write has not begun, also when the run is
\* interrupted, the output files are as they were before the run; the output
\* file is touched only once the list of enhanced chunks is assembled.
C10_OutputUntouchedBeforeWrite ==
    /\ pc \notin {"writing", "done"} => out = prevOut
    /\ out # prevOut => Assembled

\* C10, its case: the run is interrupted during the date filtering, an
\* earlier run's output file being in place.
C10_InterruptedBeforeWrite ==
    /\ interrupted
    /\ pc = "discourse_loaded"
    /\ out[OutputFile].exists

\* C11: a run whose configuration has no output_file key writes the processed
\* data to processed_data/tds_combined.json, the file the vector-store builder
\* reads, and a run whose configuration has no min_quality key uses the
\* threshold 0.0.
C11_DefaultsOfRunPipeline ==
    pc = "done" =>
      /\ "output_file" \notin DOMAIN config =>
           out[CombinedFile] = FileOf(serializable)
      /\ "min_quality" \notin DOMAIN config =>
           serializable = Serializable(enhanced_docs, 0)

\* C11, its case: a run without output_file and without min_quality has
\* written its file.
C11_DefaultRunSaved ==
    /\ pc = "done"
    /\ "output_file" \notin DOMAIN config
    /\ "min_quality" \notin DOMAIN config

(***************************************************************************)
(* The vector-store builder (src/vector_store.py).                         *)
(*                                                                         *)
(* A JSON value is a record: its Python type, the text str() gives for it, *)
(* and, for a list, its items.                                             *)
(***************************************************************************)
\* run_pipeline and its files, at rest while another program runs
PipelineIdle ==
    /\ pc = "idle"
    /\ interrupted = FALSE
    /\ config = EmptyDict
    /\ fs = FilesOf(NoCourse, NoForum)
    /\ out = OutBefore
    /\ prevOut = OutBefore
    /\ markdown_content = <<>>
    /\ course_docs = <<>>
    /\ discourse_docs = <<>>
    /\ enhanced_docs = <<>>
    /\ serializable = <<>>

\* most records in the file the builder reads
MaxItems == 2

Scalar(type, text) == [type |-> type, value |-> text, items |-> <<>>]
NoneValue == Scalar("NoneType", <<"N","o","n","e">>)
StrValue(text) == Scalar("str", text)
ListText(items) ==
    <<"[">> \o Join([k \in 1..Len(items) |->
                       IF items[k].type = "str"
                       THEN <<"'">> \o items[k].value \o <<"'">>
                       ELSE items[k].value], <<",", " ">>) \o <<"]">>
ListValue(items) == [type |-> "list", value |-> ListText(items), items |-> items]

\* isinstance(value, (str, int, float, bool))
IsPrimitive(value) == value.type \in {"str", "int", "float", "bool"}

\* ', '.join(str(item) for item in value)
JoinedItems(value) ==
    Join([k \in 1..Len(value.items) |-> value.items[k].value], <<",", " ">>)

\* lines 25-38: what clean_metadata stores for one value
CleanedValue(value) ==
    IF value.type = "NoneType" THEN value
    ELSE IF value.type = "list" THEN StrValue(JoinedItems(value))
    ELSE IF ~IsPrimitive(value) THEN StrValue(value.value)
    ELSE value

\* a metadata argument: a dict of values, or a value that is no dict
DictOf(d) == [is_dict |-> TRUE, dict |-> d]
NotADict == [is_dict |-> FALSE, dict |-> EmptyDict]

clean_metadata(metadata) ==
    IF ~metadata.is_dict THEN EmptyDict
    ELSE [key \in DOMAIN metadata.dict |-> CleanedValue(metadata.dict[key])]

\* lines 55-68: what one item of the file adds to the two lists
ItemKept(item) == item.is_dict /\ item.page_content # <<>>

LoadedDocuments(data) ==
    [k \in 1..Len(SelectSeq(data, ItemKept)) |-> SelectSeq(data, ItemKept)[k].page_content]

LoadedMetadatas(data) ==
    [k \in 1..Len(SelectSeq(data, ItemKept)) |->
        clean_metadata(SelectSeq(data, ItemKept)[k].metadata)]

\* the values a metadata key holds in the file
TagA == StrValue(<<"a">>)
TagB == StrValue(<<"b">>)
Seven == Scalar("int", <<"7">>)
MetadataValues ==
    { NoneValue, TagA, Seven, Scalar("float", <<"0",".","5">>),
      Scalar("bool", <<"T","r","u","e">>),
      ListValue(<<>>), ListValue(<<TagA, TagB>>), ListValue(<<Seven, NoneValue>>),
      Scalar("dict", <<"{","'","k","'",":"," ","1","}">>) }

\* the items of the file: records with a tags value, a record whose metadata
\* is no dict, one without metadata, one without content, and a non-record
StoredItem(content, metadata) ==
    [is_dict |-> TRUE, page_content |-> content, metadata |-> metadata]
FileItems ==
    { StoredItem(<<"x">>, DictOf("tags" :> v)) : v \in MetadataValues }
    \cup { StoredItem(<<"x">>, NotADict),
           StoredItem(<<"x">>, DictOf(EmptyDict)),
           StoredItem(<<>>, DictOf("tags" :> TagA)),
           [is_dict |-> FALSE, page_content |-> <<>>, metadata |-> NotADict] }

InitStore ==
    /\ PipelineIdle /\ CleanIdle /\ ApiIdle /\ CrawlIdle
    /\ store_pc = "start"
    /\ input_data \in
         {[status |-> st, data |-> <<>>] : st \in {"missing", "invalid"}}
         \cup {[status |-> "ok", data |-> d] : d \in SeqsUpTo(FileItems, MaxItems)}
    /\ texts = <<>>
    /\ metadatas = <<>>
    /\ vectordb = NoStore

\* lines 99-101 and load_processed_data: an unreadable file gives two empty
\* lists
LoadProcessedData ==
    /\ store_pc = "start"
    /\ texts' = IF input_data.status = "ok"
                    THEN LoadedDocuments(input_data.data) ELSE <<>>
    /\ metadatas' = IF input_data.status = "ok"
                    THEN LoadedMetadatas(input_data.data) ELSE <<>>
    /\ store_pc' = "loaded"
    /\ UNCHANGED <<input_data, vectordb>>
    /\ UNCHANGED <<pipelineVars, cleanVars, apiVars, crawlVars>>

\* lines 103-106 and build_vector_store: nothing to store, or Chroma stores
\* the texts with their metadatas, or it raises (the embedding service
\* fails, or Chroma refuses a value) and the except branch returns None
BuildVectorStore ==
    /\ store_pc = "loaded"
    /\ IF texts = <<>>
       THEN vectordb' = NoStore
       ELSE \E raised \in BOOLEAN :
              vectordb' = IF raised THEN NoStore
                          ELSE [built |-> TRUE, texts |-> texts,
                                metadatas |-> metadatas]
    /\ store_pc' = "done"
    /\ UNCHANGED <<input_data, texts, metadatas>>
    /\ UNCHANGED <<pipelineVars, cleanVars, apiVars, crawlVars>>

NextStore ==
    \/ LoadProcessedData
    \/ BuildVectorStore

SpecStore == InitStore /\ [][NextStore]_vars

\* every value of these metadata dicts is a str, an int, a float or a bool
AllPrimitive(ms) ==
    \A k \in 1..Len(ms) : \A key \in DOMAIN ms[k] : IsPrimitive(ms[k][key])

\* C12: every metadata value the builder hands to persistence, and every one
\* it stores for a chunk, is a str, an int, a float or a bool: a list is
\* stored as the comma-joined string of its items, and every other value,
\* None included, in primitive or string form.
C12_StoredValuesPrimitive ==
    /\ AllPrimitive(metadatas)
    /\ AllPrimitive(vectordb.metadatas)

\* C12, the case of a list: a store has been built from a record whose tags
\* are the list ['a', 'b'], and its tags are stored as the string 'a, b'.
C12_ListStoredJoined ==
    /\ vectordb.built
    /\ Len(input_data.data) = 1
    /\ input_data.data[1].metadata.dict = ("tags" :> ListValue(<<TagA, TagB>>))
    /\ vectordb.metadatas[1]["tags"] = StrValue(<<"a", ",", " ", "b">>)

(***************************************************************************)
(* clean_text called on its own, on every short text of letters, spaces,   *)
(* tabs and newlines.                                                      *)
(***************************************************************************)
\* longest text clean_text is called with
MaxText == 4

CleanChars == {"a", " ", "\t", "\n"}

InitClean ==
    /\ PipelineIdle /\ StoreIdle /\ ApiIdle /\ CrawlIdle
    /\ clean_pc = "start"
    /\ raw_text \in SeqsUpTo(CleanChars, MaxText)
    /\ cleaned_text = <<>>

\* lines 78-97, for course text and for forum text
CleanText ==
    /\ clean_pc = "start"
    /\ \E is_discourse \in BOOLEAN :
         cleaned_text' = clean_text(raw_text, is_discourse)
    /\ clean_pc' = "done"
    /\ UNCHANGED raw_text
    /\ UNCHANGED <<pipelineVars, storeVars, apiVars, crawlVars>>

NextClean == CleanText

SpecClean == InitClean /\ [][NextClean]_vars

BlankLine == <<"\n", "\n">>

\* two paragraphs of s are separated by one or more blank lines: between two
\* characters that are no whitespace lies whitespace alone, with two newlines
\* or more
HasParagraphBreak(s) ==
    \E i, l \in 1..Len(s) :
       /\ i < l
       /\ ~IsSpace(s[i]) /\ ~IsSpace(s[l])
       /\ \A m \in (i + 1)..(l - 1) : IsSpace(s[m])
       /\ Cardinality({m \in (i + 1)..(l - 1) : s[m] = "\n"}) >= 2

\* no tab is left, and no space is followed by another
SpacesCollapsed(s) ==
    /\ \A m \in 1..Len(s) : s[m] # "\t"
    /\ \A m \in 1..(Len(s) - 1) : ~(s[m] = " " /\ s[m + 1] = " ")

\* C13: for every text, clean_text returns a text without leading or
\* trailing whitespace, the empty text for an input of whitespace alone, each
\* run of spaces and tabs collapsed to one space, and two paragraphs that a
\* run of blank lines separated in the input separated by exactly one blank
\* line in the output.
C13_BlankLinesKept ==
    clean_pc = "done" =>
      /\ cleaned_text = Strip(cleaned_text)
      /\ (\A m \in 1..Len(raw_text) : IsSpace(raw_text[m])) => cleaned_text = <<>>
      /\ SpacesCollapsed(cleaned_text)
      /\ HasParagraphBreak(raw_text) =>
           /\ Contains(cleaned_text, BlankLine)
           /\ ~Contains(cleaned_text, <<"\n", "\n", "\n">>)

\* C13, its case: clean_text has returned for a text of two paragraphs with a
\* blank line between them.
C13_ParagraphsCleaned ==
    /\ clean_pc = "done"
    /\ raw_text = <<"a", "\n", "\n", "a">>
    /\ cleaned_text = <<"a", " ", "a">>

(***************************************************************************)
(* The question-answering endpoint POST /api/ (src/main.py).               *)
(***************************************************************************)
\* most source documents the retrieval chain returns
MaxSources == 2

\* the detail of the HTTPException of line 135
MissingDetail == "Either question or image must be provided."

\* str(e) of that exception: "" or "400: <detail>", by the starlette version
StrOfMissing == {"", "400: Either question or image must be provided."}

\* str(e) of an exception of the retrieval chain
ChainError == "chain failed"

\* the body fails the QuestionRequest model: question is a required str
Unprocessable(req) == ~req.has_question

\* the text a failed process_image gives in an f-string: it returns None
NoneText == <<"N","o","n","e">>
ImageContext ==
    <<"\n","\n","I","m","a","g","e"," ","c","o","n","t","e","x","t",":"," ">>
ImageDesc == <<"a"," ","p","l","o","t">>

\* lines 138-143: the question the chain is asked, None included
QueryOf(req, described) ==
    IF req.image = <<>> THEN [none |-> FALSE, text |-> req.question]
    ELSE IF req.question # <<>>
    THEN [none |-> FALSE,
          text |-> req.question \o ImageContext
                     \o (IF described THEN ImageDesc ELSE NoneText)]
    ELSE IF described THEN [none |-> FALSE, text |-> ImageDesc]
    ELSE [none |-> TRUE, text |-> <<>>]

\* page_content[:200].replace("\n", " ") + "..."
SnippetLen == 200
Spaced(s) == [k \in 1..Len(s) |-> IF s[k] = "\n" THEN " " ELSE s[k]]
Snippet(page_content) ==
    Spaced(SubSeq(page_content, 1, Min2(SnippetLen, Len(page_content))))
      \o <<".", ".", ".">>

\* lines 149-158: one link per distinct non-empty url, five at most
LinkLimit == 5
RECURSIVE LinksOf(_, _, _)
LinksOf(docs, k, links) ==
    IF k > Len(docs) \/ Len(links) >= LinkLimit THEN links
    ELSE IF docs[k].url # <<>> /\ \A j \in 1..Len(links) : links[j].url # docs[k].url
    THEN LinksOf(docs, k + 1,
                 Append(links, [url |-> docs[k].url, text |-> Snippet(docs[k].page_content)]))
    ELSE LinksOf(docs, k + 1, links)

HttpError(status, detail, by) ==
    [status |-> status, detail |-> detail, raised_by |-> by, query |-> <<>>,
     answer |-> <<>>, links |-> <<>>]

\* the requests: with or without question, with or without image
Questions == {<<>>, <<"w","h","y","?">>, <<"h","o","w","?">>}
Images == {<<>>, <<"/","9","j">>}
Requests ==
    { [has_question |-> TRUE, question |-> q, image |-> i] :
        q \in Questions, i \in Images }
    \cup { [has_question |-> FALSE, question |-> <<>>, image |-> i] : i \in Images }

\* the source documents of the chain's result
SourceDocs ==
    { [url |-> u, page_content |-> c] :
        u \in {<<>>, UrlOne, UrlTwo}, c \in {<<"a","\n","b">>, <<"c">>} }

InitApi ==
    /\ PipelineIdle /\ StoreIdle /\ CleanIdle /\ CrawlIdle
    /\ request \in Requests
    /\ response = NoResponse

\* answer_question, with the validation of the body before it: the body is
\* refused (422), or the check of line 134 raises inside the try block and
\* the except branch of line 162 answers 500, or the chain raises (500), or
\* the answer and its links are returned
AnswerQuestion ==
    /\ request # NoRequest
    /\ response = NoResponse
    /\ IF Unprocessable(request)
       THEN response' = HttpError(422, "Field required", "validation")
       ELSE IF request.question = <<>> /\ request.image = <<>>
       THEN \E detail \in StrOfMissing : response' = HttpError(500, detail, "check")
       ELSE \E described \in BOOLEAN, raised \in BOOLEAN,
               docs \in SeqsUpTo(SourceDocs, MaxSources) :
              response' =
                IF raised \/ QueryOf(request, described).none
                THEN HttpError(500, ChainError, "chain")
                ELSE [status |-> 200, detail |-> "", raised_by |-> "",
                      query |-> QueryOf(request, described).text,
                      answer |-> <<"o","k">>, links |-> LinksOf(docs, 1, <<>>)]
    /\ UNCHANGED request
    /\ UNCHANGED <<pipelineVars, storeVars, cleanVars, crawlVars>>

NextApi == AnswerQuestion

SpecApi == InitApi /\ [][NextApi]_vars

\* the request provides neither a non-empty question nor an image
ProvidesNothing(req) == req.question = <<>> /\ req.image = <<>>

\* C14: a request that provides neither a non-empty question nor an image is
\* answered with status 400 and the detail "Either question or image must be
\* provided."; status 500 is returned only when image processing or the
\* retrieval chain failed.
C14_MissingInputIs400 ==
    response # NoResponse =>
      /\ ProvidesNothing(request) =>
           response.status = 400 /\ response.detail = MissingDetail
      /\ response.status = 500 => response.raised_by = "chain"

\* C14, its case: a request with an empty question and no image has been
\* answered.
C14_EmptyRequestAnswered ==
    /\ request.has_question
    /\ ProvidesNothing(request)
    /\ response.status = 500

(***************************************************************************)
(* The course scraper (src/course_scaper.py): crawl_page and               *)
(* normalize_url.  A call of crawl_page is a frame of the stack: waiting   *)
(* to run ("call"), or in its loop over the internal links ("loop").       *)
(***************************************************************************)
\* most links extract_all_links returns for a page
MaxLinks == 2
\* most nested calls of crawl_page
MaxDepth == 6

BASE_ORIGIN ==
    <<"h","t","t","p","s",":","/","/","t","d","s",".","s","-","a","n","a","n","d",
      ".","n","e","t">>
BASE_URL == BASE_ORIGIN \o <<"/","#","/","2","0","2","5","-","0","1">>

\* url.startswith(prefix)
StartsWith(url, prefix) == HasAt(url, 1, prefix)

\* urljoin(BASE_ORIGIN, url): a url with a scheme stands, one that starts
\* with "//" takes the scheme, a path takes the origin
urljoin(base, url) ==
    IF url = <<>> THEN base
    ELSE IF IsScheme(url, Find(url, <<":">>, 1)) THEN url
    ELSE IF StartsWith(url, <<"/", "/">>) THEN <<"h","t","t","p","s",":">> \o url
    ELSE IF StartsWith(url, <<"/">>) THEN base \o url
    ELSE base \o <<"/">> \o url

normalize_url(url) ==
    IF StartsWith(url, <<"#">>) THEN BASE_ORIGIN \o <<"/", "#">> \o Tail(url)
    ELSE IF ~(StartsWith(url, Http) \/ StartsWith(url, Https))
    THEN urljoin(BASE_ORIGIN, url)
    ELSE url

\* lines 119-122
IsInternal(link) == Netloc(link) = Netloc(BASE_ORIGIN)
internal_links(links) == SelectSeq(links, IsInternal)

\* the links of the pages: two pages that may link to themselves and to
\* each other, the first one also without its scheme and as a fragment
\* alone, and a page of another site
PageA == BASE_ORIGIN \o <<"/","#","/","a">>
PageB == BASE_ORIGIN \o <<"/","#","/","b">>
SchemeRelativeA == <<"/","/">> \o SubSeq(PageA, 9, Len(PageA))
FragmentA == <<"#","/","a">>
External == <<"h","t","t","p","s",":","/","/","x",".","i","o","/">>
Links == {PageA, PageB, SchemeRelativeA, FragmentA, External}

\* Array.from(links) of a Set: sequences without repetition
RECURSIVE LinkLists(_)
LinkLists(n) ==
    IF n = 0 THEN {<<>>}
    ELSE LinkLists(n - 1)
         \cup {Append(l, x) : l \in {m \in LinkLists(n - 1) : Len(m) = n - 1},
                              x \in Links}

Distinct(l) == \A j, k \in 1..Len(l) : j # k => l[j] # l[k]

\* what a fetch gives: goto raises, or the content is not found, or the
\* page is saved and its links are extracted
Fetches ==
    {[result |-> r, links |-> <<>>] : r \in {"error", "no_content"}}
    \cup {[result |-> "ok", links |-> l] : l \in {m \in LinkLists(MaxLinks) : Distinct(m)}}

CallOf(url) == [phase |-> "call", url |-> url, links |-> <<>>]

\* the URL main crawls from, or the same URL as a fragment
StartUrls == {BASE_URL, <<"#","/","2","0","2","5","-","0","1">>}

InitCrawl ==
    /\ PipelineIdle /\ StoreIdle /\ CleanIdle /\ ApiIdle
    /\ visited = {}
    /\ saved = <<>>
    /\ gotos = <<>>
    /\ \E url \in StartUrls : stack = <<CallOf(url)>>

\* the check of line 102 made on the link as it was found
AlreadyVisitedRaw(url) == url \in visited

\* line 102
AlreadyVisited(url) == normalize_url(url) \in visited

\* lines 100-122: crawl_page up to its loop. A visited URL returns at once;
\* otherwise the URL is added to visited and fetched, and the call returns
\* (goto raised, or the page has no content) or enters its loop.
CrawlEnter ==
    /\ stack # <<>>
    /\ Head(stack).phase = "call"
    /\ IF AlreadyVisited(Head(stack).url)
       THEN /\ stack' = Tail(stack)
            /\ UNCHANGED <<visited, saved, gotos>>
       ELSE /\ visited' = visited \cup {normalize_url(Head(stack).url)}
            /\ gotos' = Append(gotos, normalize_url(Head(stack).url))
            /\ \E fetch \in Fetches :
                 IF fetch.result = "ok"
                 THEN /\ saved' = Append(saved, normalize_url(Head(stack).url))
                      /\ stack' = <<[phase |-> "loop",
                                     url |-> normalize_url(Head(stack).url),
                                     links |-> internal_links(fetch.links)]>>
                                  \o Tail(stack)
                 ELSE /\ stack' = Tail(stack)
                      /\ UNCHANGED saved
    /\ UNCHANGED <<pipelineVars, storeVars, cleanVars, apiVars>>

\* lines 125-127: the next link of the loop; a link not in visited is crawled
CrawlLink ==
    /\ stack # <<>>
    /\ Head(stack).phase = "loop"
    /\ Head(stack).links # <<>>
    /\ Len(stack) < MaxDepth
    /\ stack' =
         (IF Head(stack).links[1] \notin visited
          THEN <<CallOf(Head(stack).links[1])>> ELSE <<>>)
         \o <<[Head(stack) EXCEPT !.links = Tail(@)]>>
         \o Tail(stack)
    /\ UNCHANGED <<visited, saved, gotos>>
    /\ UNCHANGED <<pipelineVars, storeVars, cleanVars, apiVars>>

\* the loop is over: crawl_page returns
CrawlReturn ==
    /\ stack # <<>>
    /\ Head(stack).phase = "loop"
    /\ Head(stack).links = <<>>
    /\ stack' = Tail(stack)
    /\ UNCHANGED <<visited, saved, gotos>>
    /\ UNCHANGED <<pipelineVars, storeVars, cleanVars, apiVars>>

NextCrawl ==
    \/ CrawlEnter
    \/ CrawlLink
    \/ CrawlReturn

\* the scraper runs on: a call of crawl_page that can take a step takes it
SpecCrawl == InitCrawl /\ [][NextCrawl]_vars /\ WF_vars(NextCrawl)

\* C15: page.goto is never called twice with the same normalized URL, every
\* URL it is called with was added to visited before, a link that normalizes
\* to a visited URL is not fetched again, and the crawl ends.
C15_EachUrlFetchedOnce ==
    /\ [](/\ Distinct(gotos)
          /\ \A k \in 1..Len(gotos) :
               gotos[k] \in visited /\ gotos[k] = normalize_url(gotos[k]))
    /\ <>(stack = <<>>)

\* C15, its case: while a page is crawled, a link that differs from its URL
\* by normalization alone has been found and has not been fetched.
C15_NormalizedLinkSkipped ==
    /\ PageA \in visited
    /\ Len(stack) = 2
    /\ stack[1] = CallOf(SchemeRelativeA)
    /\ stack[2].phase = "loop"

====
